---- MODULE Spec2Model ----
(***************************************************************************)
(* Model of the invoice validator of shopify-db (src/tripletex.py) and of   *)
(* the tripletex-generate command that runs it (src/shopifydb.py).         *)
(*                                                                         *)
(* A table (pandas DataFrame) is a sequence of rows; a row is a function   *)
(* from column names to cells.  A cell is Null (NaN / None) or Some(v).    *)
(* String values are sequences of one-character strings, so that slicing   *)
(* (ORDER NO .str[1:]), int() parsing, str() formatting and Python's       *)
(* string ordering are computed and not assumed.  Amounts are integers;    *)
(* the price check is computed exactly over them, scaled by 100.           *)
(***************************************************************************)
EXTENDS Integers, Sequences, FiniteSets, TLC

VARIABLES invoices, gateway, df, pc, tests_passed, log, err, result,
          gpc, cli_gateway, query_ok, columns, db_rows, queried, file

\* the state of tripletex_generate around the call of verify_invoices
genvars == <<gpc, cli_gateway, query_ok, columns, db_rows, queried, file>>

\* one call of fetch_all or fetch_single (src/shopify.py)
VARIABLES fetcher, retries, responses, sleeps, fpc

fetchvars == <<fetcher, retries, responses, sleeps, fpc>>

\* no call of fetch_all or fetch_single is in progress
FetchIdle ==
    /\ fetcher = "none"
    /\ retries = 0
    /\ responses = <<>>
    /\ sleeps = 0
    /\ fpc = "idle"

\* one call of update_transactions or update_refunds (src/shopify.py)
VARIABLES batcher, order_ids, ind, pending, received, written, transactions_cnt, bpc

batchvars == <<batcher, order_ids, ind, pending, received, written, transactions_cnt, bpc>>

\* no call of update_transactions or update_refunds is in progress
BatchIdle ==
    /\ batcher = "none"
    /\ order_ids = 0
    /\ ind = 0
    /\ pending = <<>>
    /\ received = <<>>
    /\ written = <<>>
    /\ transactions_cnt = 0
    /\ bpc = "idle"

\* a table of the database written by Db.update_* (src/db.py), and the
\* record last supplied for each id
VARIABLES utable, stored, supplied, upserts, upc

upsertvars == <<utable, stored, supplied, upserts, upc>>

\* no table is being written
UpsertIdle ==
    /\ utable = "none"
    /\ stored = <<>>
    /\ supplied = <<>>
    /\ upserts = 0
    /\ upc = "idle"

\* the orders of the remote shop with their financial status, and what
\* the last run of shopify_update (src/shopifydb.py) saw and did
VARIABLES remote, remote_seen, refunded_order_ids, runs

runvars == <<remote, remote_seen, refunded_order_ids, runs>>

\* there is no shop and shopify_update has not run
RunIdle ==
    /\ remote = <<>>
    /\ remote_seen = <<>>
    /\ refunded_order_ids = {}
    /\ runs = 0

\* the view tripletex_invoice, the arguments and the result of
\* Db.get_tripletex_invoice (src/db.py)
VARIABLES view, invoice_start_id, qresult, qpc

queryvars == <<view, invoice_start_id, qresult, qpc>>

\* the invoice query is not being run
QueryIdle ==
    /\ view = <<>>
    /\ invoice_start_id = 0
    /\ qresult = <<>>
    /\ qpc = "idle"

\* the paginated ingestion of one collection of the remote shop
\* (update_customers, update_orders, update_products_and_variants in
\* src/shopify.py): the pages the shop serves, the date arguments, the
\* page token of the loop, and the requests and writes made so far
VARIABLES pager, pages, created_at, page, trace, ppc

pagevars == <<pager, pages, created_at, page, trace, ppc>>

\* no collection is being ingested
PagerIdle ==
    /\ pager = "none"
    /\ pages = <<>>
    /\ created_at = <<>>
    /\ page = <<>>
    /\ trace = <<>>
    /\ ppc = "idle"

\* the state of the synchronisation with the remote shop
syncvars ==
    <<fetchvars, batchvars, upsertvars, runvars, queryvars, pagevars>>

SyncIdle ==
    FetchIdle /\ BatchIdle /\ UpsertIdle /\ RunIdle /\ QueryIdle /\ PagerIdle

\* the state of the tripletex commands
tripletexvars ==
    <<invoices, gateway, df, pc, tests_passed, log, err, result, genvars>>

vars == <<tripletexvars, syncvars>>

(***************************************************************************)
(* Bounds of the model.                                                    *)
(***************************************************************************)
MaxRows == 3
MaxNo == 3
\* longest list of order ids handed to update_transactions, update_refunds
MaxOrders == 12
\* most calls of Db.update_* on one table, and longest list of records
MaxUpserts == 3
MaxBatch == 2
\* most runs of shopify_update, and most orders in the shop
MaxRuns == 3
MaxShopOrders == 2
\* most pages the shop serves for one collection
MaxPages == 3

(***************************************************************************)
(* Cells.                                                                  *)
(***************************************************************************)
Null == <<>>
Some(v) == <<v>>
IsNull(c) == Len(c) = 0
Val(c) == c[1]

(***************************************************************************)
(* Strings: characters, Python ordering, int() and str().                  *)
(***************************************************************************)
DigitChars == <<"0", "1", "2", "3", "4", "5", "6", "7", "8", "9">>

IsDigit(ch) == \E i \in 1..10 : DigitChars[i] = ch

DigitVal(ch) == (CHOOSE i \in 1..10 : DigitChars[i] = ch) - 1

\* the characters that occur in the model, in code-point order
CodePointOrder ==
    << "#", "0", "1", "2", "3", "4", "5", "6", "7", "8", "9", "A", "C", "D",
       "F", "G", "I", "K", "R", "S", "T", "V", "i", "s", "t", "x" >>

\* rank of a character by code point (ord)
Ord(ch) == CHOOSE i \in 1..Len(CodePointOrder) : CodePointOrder[i] = ch

RECURSIVE StrLess(_, _)
\* Python's < on str: lexicographic by code point
StrLess(a, b) ==
    IF Len(b) = 0 THEN FALSE
    ELSE IF Len(a) = 0 THEN TRUE
    ELSE IF Ord(a[1]) # Ord(b[1]) THEN Ord(a[1]) < Ord(b[1])
    ELSE StrLess(Tail(a), Tail(b))

RECURSIVE ParseDigits(_, _)
ParseDigits(s, acc) ==
    IF Len(s) = 0 THEN acc
    ELSE ParseDigits(Tail(s), 10 * acc + DigitVal(s[1]))

\* int(s) for a str s: Null stands for ValueError
PyInt(s) ==
    IF Len(s) > 0 /\ \A i \in 1..Len(s) : IsDigit(s[i])
    THEN Some(ParseDigits(s, 0))
    ELSE Null

RECURSIVE PyStr(_)
\* str(n) for an int n >= 0
PyStr(n) ==
    IF n < 10 THEN <<DigitChars[n + 1]>>
    ELSE PyStr(n \div 10) \o <<DigitChars[(n % 10) + 1]>>

Abs(n) == IF n < 0 THEN -n ELSE n

(***************************************************************************)
(* Sequence helpers for pandas / Python collection operations.             *)
(***************************************************************************)
Range(s) == {s[i] : i \in 1..Len(s)}

RECURSIVE UniqueFrom(_, _)
UniqueFrom(s, acc) ==
    IF Len(s) = 0 THEN acc
    ELSE UniqueFrom(Tail(s),
                    IF s[1] \in Range(acc) THEN acc ELSE Append(acc, s[1]))

\* Series.unique(): distinct values in order of first appearance, NaN kept
Unique(s) == UniqueFrom(s, <<>>)

RECURSIVE SortedStrs(_)
\* sorted(set(...)) of str values
SortedStrs(S) ==
    IF S = {} THEN <<>>
    ELSE LET m == CHOOSE x \in S : \A y \in S : ~StrLess(y, x)
         IN <<m>> \o SortedStrs(S \ {m})

\* min() and max() of a non-empty collection of ints
SetMin(S) == CHOOSE x \in S : \A y \in S : x <= y

SetMax(S) == CHOOSE x \in S : \A y \in S : x >= y

\* df[c]: the cells of column c, in row order
Column(t, c) == [i \in 1..Len(t) |-> t[i][c]]

RECURSIVE JoinFrom(_, _)
JoinFrom(items, acc) ==
    IF Len(items) = 0 THEN acc
    ELSE JoinFrom(Tail(items), acc \o <<",", " ">> \o items[1])

\* ", ".join(items) for a list of str
PyJoin(items) ==
    IF Len(items) = 0 THEN <<>> ELSE JoinFrom(Tail(items), items[1])

\* ", ".join raises TypeError when an item is NaN (a float) and not a str
JoinRaises(cells) == \E i \in 1..Len(cells) : IsNull(cells[i])

Vals(cells) == [i \in 1..Len(cells) |-> Val(cells[i])]

(***************************************************************************)
(* Columns of the invoice table.                                           *)
(***************************************************************************)
INVOICE_REQUIRED_FIELDS ==
    << "CUSTOMER NO", "ORDER NO", "PAID AMOUNT", "ORDER LINE - COUNT",
       "ORDER LINE - UNIT PRICE", "ORDER LINE - VAT CODE", "PAYMENT TYPE",
       "INVOICE DATE", "DELIVERY DATE", "ORDER DATE", "DUE DATE",
       "INVOICE NO" >>

INVOICE_OPTIONAL_FIELDS ==
    << "CUSTOMER NAME", "ORDER LINE - PROD NAME", "ORDER LINE - DISCOUNT",
       "ORDER LINE - DESCRIPTION", "ORDER LINE - PROD NO" >>

\* the columns selected by the invoice query
QueryColumns ==
    {"transaction_id", "order_id"}
        \cup Range(INVOICE_REQUIRED_FIELDS) \cup Range(INVOICE_OPTIONAL_FIELDS)

\* the columns the query fills with numbers; every other column holds text
NumericColumns ==
    {"transaction_id", "order_id", "PAID AMOUNT", "ORDER LINE - COUNT",
     "ORDER LINE - UNIT PRICE", "ORDER LINE - DISCOUNT", "INVOICE NO"}

(***************************************************************************)
(* Outcome of one check: it returns a bool or raises; either way the       *)
(* messages it logged before that point stay logged.                       *)
(***************************************************************************)
Returned(ret, l) == [raised |-> FALSE, errs |-> {}, ret |-> ret, log |-> l]

Raised(errs, l) == [raised |-> TRUE, errs |-> errs, ret |-> FALSE, log |-> l]

Msg(level, src, args) == [level |-> level, src |-> src, args |-> args]

(***************************************************************************)
(* The eight checks.                                                       *)
(***************************************************************************)
\* df[c] raises KeyError for a column the table does not have
HasColumns(cs) == cs \subseteq columns

\* df.loc[df['PAID AMOUNT'] <= 0]: a comparison with NaN is False
PaidLE0(r) == ~IsNull(r["PAID AMOUNT"]) /\ Val(r["PAID AMOUNT"]) <= 0

PaidGE0(r) == ~IsNull(r["PAID AMOUNT"]) /\ Val(r["PAID AMOUNT"]) >= 0

PaidLT0(r) == ~IsNull(r["PAID AMOUNT"]) /\ Val(r["PAID AMOUNT"]) < 0

\* Series.nunique(): the number of distinct non-null values
NUnique(cells) == Cardinality({c \in Range(cells) : ~IsNull(c)})

_refunds(t) ==
    LET cells == Column(SelectSeq(t, PaidLE0), "ORDER NO")
        refunds == SortedStrs({Val(c) : c \in {x \in Range(cells) : ~IsNull(x)}})
    IN  IF JoinRaises(cells) THEN Raised({"TypeError"}, <<>>)
        ELSE IF Len(refunds) > 0
        THEN Returned(FALSE, <<Msg("warning", "_refunds",
                                   <<Len(refunds), PyJoin(refunds)>>)>>)
        ELSE Returned(TRUE, <<>>)

GIFTCARD == <<"G", "I", "F", "T", "C", "A", "R", "D">>

IsGiftCard(r) == r["ORDER LINE - PROD NO"] = Some(GIFTCARD)

_gift_cards(t) ==
    LET cells == Column(SelectSeq(t, IsGiftCard), "ORDER NO")
        gift_cards ==
            SortedStrs({Val(c) : c \in {x \in Range(cells) : ~IsNull(x)}})
    IN  IF JoinRaises(cells) THEN Raised({"TypeError"}, <<>>)
        ELSE IF Len(gift_cards) > 0
        THEN Returned(FALSE, <<Msg("warning", "_gift_cards",
                                   <<Len(gift_cards), PyJoin(gift_cards)>>)>>)
        ELSE Returned(TRUE, <<>>)

\* Series.str[1:]: NaN stays NaN
StrTail(c) == IF IsNull(c) THEN Null ELSE Some(Tail(Val(c)))

\* int(i) for an element of the sliced column: int(NaN) raises ValueError
IntOfCell(c) == IF IsNull(c) THEN Null ELSE PyInt(Val(c))

\* [i for i in range(lo, hi) if i not in xs], ascending
RECURSIVE MissingIn(_, _, _)
MissingIn(lo, hi, xs) ==
    IF lo >= hi THEN <<>>
    ELSE (IF lo \in xs THEN <<>> ELSE <<lo>>) \o MissingIn(lo + 1, hi, xs)

_order_no(t) ==
    LET cells == Column(SelectSeq(t, PaidGE0), "ORDER NO")
        sliced == Unique([i \in 1..Len(cells) |-> StrTail(cells[i])])
        parsed == [i \in 1..Len(sliced) |-> IntOfCell(sliced[i])]
    IN  IF \E i \in 1..Len(parsed) : IsNull(parsed[i])
        THEN \* int() of NaN, of '' or of a non-numeric suffix; .str itself
             \* raises AttributeError when the column holds no string at all
             Raised(IF \A i \in 1..Len(t) : IsNull(t[i]["ORDER NO"])
                    THEN {"ValueError", "AttributeError"}
                    ELSE {"ValueError"}, <<>>)
        ELSE IF Len(parsed) = 0
        THEN \* min() arg is an empty sequence
             Raised({"ValueError"}, <<>>)
        ELSE LET orders == Range(Vals(parsed))
                 nums == MissingIn(SetMin(orders) + 1, SetMax(orders), orders)
                 missing_orders ==
                     [i \in 1..Len(nums) |-> <<"#">> \o PyStr(nums[i])]
             IN  IF Len(missing_orders) > 0
                 THEN Returned(FALSE,
                               <<Msg("warning", "_order_no",
                                     <<Len(missing_orders),
                                       PyJoin(missing_orders)>>)>>)
                 ELSE Returned(TRUE, <<>>)

\* mutant: the range starts one too high, range(min(inv)+2, max(inv))
_invoice_no_late(t) ==
    LET cells == Unique(Column(t, "INVOICE NO"))
    IN  IF \E i \in 1..Len(cells) : IsNull(cells[i])
        THEN Raised({"ValueError"}, <<>>)
        ELSE IF Len(cells) = 0
        THEN Raised({"ValueError"}, <<>>)
        ELSE LET inv == Range(Vals(cells))
                 nums == MissingIn(SetMin(inv) + 2, SetMax(inv), inv)
                 missing_inv == [i \in 1..Len(nums) |-> PyStr(nums[i])]
             IN  IF Len(missing_inv) > 0
                 THEN Returned(FALSE,
                               <<Msg("warning", "_invoice_no",
                                     <<Len(missing_inv),
                                       PyJoin(missing_inv)>>)>>)
                 ELSE Returned(TRUE, <<>>)

_invoice_no(t) ==
    LET cells == Unique(Column(t, "INVOICE NO"))
    IN  IF \E i \in 1..Len(cells) : IsNull(cells[i])
        THEN Raised({"ValueError"}, <<>>)
        ELSE IF Len(cells) = 0
        THEN Raised({"ValueError"}, <<>>)
        ELSE LET inv == Range(Vals(cells))
                 nums == MissingIn(SetMin(inv) + 1, SetMax(inv), inv)
                 missing_inv == [i \in 1..Len(nums) |-> PyStr(nums[i])]
             IN  IF Len(missing_inv) > 0
                 THEN Returned(FALSE,
                               <<Msg("warning", "_invoice_no",
                                     <<Len(missing_inv),
                                       PyJoin(missing_inv)>>)>>)
                 ELSE Returned(TRUE, <<>>)

\* df.loc[df[f].isna()]['ORDER NO'].unique()
MissingFor(t, f) ==
    Unique(Column(SelectSeq(t, LAMBDA r : IsNull(r[f])), "ORDER NO"))

RECURSIVE NoneValuesFrom(_, _, _)
\* the loop of _none_values from field i on; the value returned after the
\* loop is computed from the variable missing as the last iteration left it
NoneValuesFrom(t, i, l) ==
    LET missing == MissingFor(t, INVOICE_REQUIRED_FIELDS[i])
        l2 == IF Len(missing) > 0
              THEN Append(l, Msg("warning", "_none_values",
                                 <<INVOICE_REQUIRED_FIELDS[i],
                                   PyJoin(Vals(missing))>>))
              ELSE l
    IN  IF ~HasColumns({INVOICE_REQUIRED_FIELDS[i], "ORDER NO"})
        THEN Raised({"KeyError"}, l)
        ELSE IF Len(missing) > 0 /\ JoinRaises(missing)
        THEN Raised({"TypeError"}, l)
        ELSE IF i = Len(INVOICE_REQUIRED_FIELDS)
        THEN Returned(Len(missing) = 0, l2)
        ELSE NoneValuesFrom(t, i + 1, l2)

_none_values(t) == NoneValuesFrom(t, 1, <<>>)

\* mutant: any(axis=1) in place of all(axis=1)
BothMissing_any(r) ==
    IsNull(r["ORDER LINE - PROD NO"]) \/ IsNull(r["ORDER LINE - DESCRIPTION"])

BothMissing(r) ==
    IsNull(r["ORDER LINE - PROD NO"]) /\ IsNull(r["ORDER LINE - DESCRIPTION"])

_description_or_sku(t) ==
    LET errors == Unique(Column(SelectSeq(t, BothMissing), "ORDER NO"))
    IN  IF Len(errors) > 0
        THEN IF JoinRaises(errors) THEN Raised({"TypeError"}, <<>>)
             ELSE Returned(FALSE,
                           <<Msg("warning", "_description_or_sku",
                                 <<Len(errors), PyJoin(Vals(errors))>>)>>)
        ELSE Returned(TRUE, <<>>)

\* df['price_after_discount'], kept as an exact integer scaled by 100:
\* COUNT * UNIT PRICE * (100 - DISCOUNT), NaN when an operand is NaN
PriceAfterDiscount(r) ==
    IF \/ IsNull(r["ORDER LINE - COUNT"])
       \/ IsNull(r["ORDER LINE - UNIT PRICE"])
       \/ IsNull(r["ORDER LINE - DISCOUNT"])
    THEN Null
    ELSE Some(Val(r["ORDER LINE - COUNT"]) * Val(r["ORDER LINE - UNIT PRICE"])
                  * (100 - Val(r["ORDER LINE - DISCOUNT"])))

\* the table after the column assignment of _price
WithPriceColumn(t) ==
    [i \in 1..Len(t) |->
        [c \in (DOMAIN t[i]) \cup {"price_after_discount"} |->
            IF c = "price_after_discount" THEN PriceAfterDiscount(t[i])
            ELSE t[i][c]]]

\* the keys of df.groupby(['ORDER NO']): sorted, rows with a NaN key dropped
GroupKeys(t) ==
    SortedStrs({Val(c) : c \in {x \in Range(Column(t, "ORDER NO")) : ~IsNull(x)}})

GroupRows(t, o) == SelectSeq(t, LAMBDA r : r["ORDER NO"] = Some(o))

\* NamedAgg(column, 'first'): the first non-null value of the group, else NaN
AggFirst(cells) ==
    LET nn == SelectSeq(cells, LAMBDA c : ~IsNull(c))
    IN  IF Len(nn) = 0 THEN Null ELSE nn[1]

RECURSIVE AggSum(_)
\* NamedAgg(column, 'sum'): NaN cells are skipped
AggSum(cells) ==
    IF Len(cells) = 0 THEN 0
    ELSE (IF IsNull(cells[1]) THEN 0 ELSE Val(cells[1])) + AggSum(Tail(cells))

\* grouped['diff'] scaled by 100; NaN when paid_amount is NaN
GroupDiff(t, o) ==
    LET g == GroupRows(t, o)
        paid_amount == AggFirst(Column(g, "PAID AMOUNT"))
        lineitems_total == AggSum(Column(g, "price_after_discount"))
    IN  IF IsNull(paid_amount) THEN Null
        ELSE Some(Abs(100 * Val(paid_amount) - lineitems_total))

\* mutant: the comparison is not strict
PriceMismatch_inclusive(t, o) ==
    LET paid_amount == AggFirst(Column(GroupRows(t, o), "PAID AMOUNT"))
        diff == GroupDiff(t, o)
    IN  ~IsNull(diff) /\ Val(diff) >= Abs(Val(paid_amount))

\* grouped['diff'] > abs(grouped.paid_amount) * 0.01, both sides scaled by 100
PriceMismatch(t, o) ==
    LET paid_amount == AggFirst(Column(GroupRows(t, o), "PAID AMOUNT"))
        diff == GroupDiff(t, o)
    IN  ~IsNull(diff) /\ Val(diff) > Abs(Val(paid_amount))

_price(t) ==
    LET t2 == WithPriceColumn(t)
        price_mismatch ==
            SelectSeq(GroupKeys(t2), LAMBDA o : PriceMismatch(t2, o))
    IN  Returned(Len(price_mismatch) = 0,
                 [i \in 1..Len(price_mismatch) |->
                     Msg("warning", "_price",
                         <<price_mismatch[i],
                           Val(GroupDiff(t2, price_mismatch[i]))>>)])

PairLess(a, b) ==
    StrLess(a[1], b[1]) \/ (a[1] = b[1] /\ StrLess(a[2], b[2]))

RECURSIVE SortedPairs(_)
SortedPairs(S) ==
    IF S = {} THEN <<>>
    ELSE LET m == CHOOSE x \in S : \A y \in S : ~PairLess(y, x)
         IN <<m>> \o SortedPairs(S \ {m})

\* ~df['PAYMENT TYPE'].isin(gateway): NaN is in no list of names
NotInGateway(r, names) ==
    IsNull(r["PAYMENT TYPE"]) \/ Val(r["PAYMENT TYPE"]) \notin Range(names)

\* groupby(['ORDER NO', 'PAYMENT TYPE']).first(): one row per pair of keys,
\* sorted by the keys; a row with a NaN key belongs to no group
FlaggedGroups(t, names) ==
    SortedPairs({<<Val(r["ORDER NO"]), Val(r["PAYMENT TYPE"])>> :
                    r \in {x \in Range(t) :
                              /\ NotInGateway(x, names)
                              /\ ~IsNull(x["ORDER NO"])
                              /\ ~IsNull(x["PAYMENT TYPE"])}})

\* gw is Null for gateway=None, else Some(list of names)
_unknown_gateway(t, gw) ==
    IF IsNull(gw) THEN Returned(TRUE, <<>>)
    ELSE LET flagged_gw == FlaggedGroups(t, Val(gw))
         IN  Returned(Len(flagged_gw) = 0,
                      [i \in 1..Len(flagged_gw) |->
                          Msg("warning", "_unknown_gateway", flagged_gw[i])])

(***************************************************************************)
(* verify_invoices as a state machine: one step per statement group, one   *)
(* step per element of the tests_passed list, evaluated left to right.     *)
(***************************************************************************)
\* df.replace('', np.nan) followed by fillna: '' becomes NaN in a new table
ReplaceEmpty(t) ==
    [i \in 1..Len(t) |->
        [c \in DOMAIN t[i] |->
            IF c \notin NumericColumns /\ t[i][c] = Some(<<>>) THEN Null
            ELSE t[i][c]]]

\* mutant: the empty strings are replaced in place
DfIsCallerTable_inplace == TRUE

\* whether, after line 210, df still names the table object of the caller:
\* DataFrame.replace without inplace returns a new table
DfIsCallerTable == FALSE

VerifyStart ==
    /\ pc = "start"
    /\ df' = ReplaceEmpty(df)
    /\ invoices' = IF DfIsCallerTable THEN ReplaceEmpty(df) ELSE invoices
    /\ IF HasColumns({"PAID AMOUNT", "ORDER NO"})
       THEN /\ LET d == ReplaceEmpty(df)
                   n_refund ==
                       NUnique(Column(SelectSeq(d, PaidLT0), "ORDER NO"))
                   n_ordinary ==
                       NUnique(Column(SelectSeq(d, PaidGE0), "ORDER NO"))
               IN  log' = Append(log, Msg("info", "verify_invoices",
                                          <<n_ordinary, n_refund>>))
            /\ pc' = "_refunds"
            /\ UNCHANGED err
       ELSE /\ pc' = "raised"
            /\ err' = "KeyError"
            /\ UNCHANGED log
    /\ UNCHANGED <<gateway, tests_passed, result>>
    /\ UNCHANGED genvars
    /\ UNCHANGED syncvars

\* one element of the list literal: the check returns and its value is
\* appended, or it raises and verify_invoices is left with the exception
CheckStep(name, out, next) ==
    /\ pc = name
    /\ log' = log \o out.log
    /\ IF out.raised
       THEN /\ pc' = "raised"
            /\ err' \in out.errs
            /\ UNCHANGED tests_passed
       ELSE /\ pc' = next
            /\ tests_passed' = Append(tests_passed, out.ret)
            /\ UNCHANGED err
    /\ UNCHANGED <<gateway, result>>
    /\ UNCHANGED genvars
    /\ UNCHANGED syncvars

KeyError == Raised({"KeyError"}, <<>>)

Refunds ==
    /\ CheckStep("_refunds",
                 IF HasColumns({"PAID AMOUNT", "ORDER NO"}) THEN _refunds(df)
                 ELSE KeyError,
                 "_gift_cards")
    /\ UNCHANGED <<df, invoices>>

GiftCards ==
    /\ CheckStep("_gift_cards",
                 IF HasColumns({"ORDER LINE - PROD NO", "ORDER NO"})
                 THEN _gift_cards(df) ELSE KeyError,
                 "_order_no")
    /\ UNCHANGED <<df, invoices>>

OrderNo ==
    /\ CheckStep("_order_no",
                 IF HasColumns({"PAID AMOUNT", "ORDER NO"}) THEN _order_no(df)
                 ELSE KeyError,
                 "_invoice_no")
    /\ UNCHANGED <<df, invoices>>

InvoiceNo ==
    /\ CheckStep("_invoice_no",
                 IF HasColumns({"INVOICE NO"}) THEN _invoice_no(df)
                 ELSE KeyError,
                 "_none_values")
    /\ UNCHANGED <<df, invoices>>

NoneValues ==
    /\ CheckStep("_none_values", _none_values(df), "_description_or_sku")
    /\ UNCHANGED <<df, invoices>>

DescriptionOrSku ==
    /\ CheckStep("_description_or_sku",
                 IF HasColumns({"ORDER LINE - PROD NO",
                                "ORDER LINE - DESCRIPTION", "ORDER NO"})
                 THEN _description_or_sku(df) ELSE KeyError,
                 "_price")
    /\ UNCHANGED <<df, invoices>>

PriceColumns ==
    {"ORDER LINE - COUNT", "ORDER LINE - UNIT PRICE", "ORDER LINE - DISCOUNT",
     "ORDER NO", "PAID AMOUNT"}

Price ==
    /\ CheckStep("_price",
                 IF HasColumns(PriceColumns) THEN _price(df) ELSE KeyError,
                 "_unknown_gateway")
    /\ df' = IF HasColumns(PriceColumns) THEN WithPriceColumn(df) ELSE df
    /\ invoices' = IF DfIsCallerTable THEN df' ELSE invoices

UnknownGateway ==
    /\ CheckStep("_unknown_gateway",
                 IF IsNull(gateway) \/ HasColumns({"PAYMENT TYPE", "ORDER NO"})
                 THEN _unknown_gateway(df, gateway) ELSE KeyError,
                 "finish")
    /\ UNCHANGED <<df, invoices>>

\* invoice_success = False not in tests_passed
VerifyFinish ==
    /\ pc = "finish"
    /\ LET invoice_success == \A i \in 1..Len(tests_passed) : tests_passed[i]
       IN  /\ result' = Some(invoice_success)
           /\ log' = Append(log,
                  IF invoice_success
                  THEN Msg("info", "verify_invoices", <<"no irregularities">>)
                  ELSE Msg("warning", "verify_invoices", <<"check manually">>))
    /\ pc' = "done"
    /\ UNCHANGED <<invoices, gateway, df, tests_passed, err>>
    /\ UNCHANGED genvars
    /\ UNCHANGED syncvars

Next ==
    \/ VerifyStart
    \/ Refunds
    \/ GiftCards
    \/ OrderNo
    \/ InvoiceNo
    \/ NoneValues
    \/ DescriptionOrSku
    \/ Price
    \/ UnknownGateway
    \/ VerifyFinish

(***************************************************************************)
(* tripletex_generate (src/shopifydb.py): query, rename, verify, export.   *)
(* cli_gateway is the -g argument: Null when absent, else Some(pairs) with *)
(* pairs a list of <<old name, new name>>.                                 *)
(***************************************************************************)
\* dict(gateway): a later pair with the same old name wins
PyDict(pairs) ==
    [k \in {pairs[i][1] : i \in 1..Len(pairs)} |->
        pairs[SetMax({i \in 1..Len(pairs) : pairs[i][1] = k})][2]]

\* mutant: Series.map instead of Series.replace, a value that is no key
\* of the mapping becomes NaN
replace_invoice_gateway_map(t, d) ==
    LET replaced ==
            [i \in 1..Len(t) |->
                [t[i] EXCEPT !["PAYMENT TYPE"] =
                    IF ~IsNull(@) /\ Val(@) \in DOMAIN d
                    THEN Some(d[Val(@)]) ELSE Null]]
    IN  [arg |-> replaced, ret |-> replaced]

\* df['PAYMENT TYPE'].replace(gateway, inplace=True); return df
\* (pandas without copy-on-write: the column of df itself is replaced, all
\* keys of the dict being matched against the values of before the call).
\* arg is the table object passed in as it is after the call, ret the
\* table returned; both are the one object df.
replace_invoice_gateway(t, d) ==
    LET replaced ==
            [i \in 1..Len(t) |->
                [t[i] EXCEPT !["PAYMENT TYPE"] =
                    IF ~IsNull(@) /\ Val(@) \in DOMAIN d
                    THEN Some(d[Val(@)]) ELSE @]]
    IN  [arg |-> replaced, ret |-> replaced]

\* mutant: the allowlist is built from the old names, i[0]
NewNames_old(pairs) == [i \in 1..Len(pairs) |-> pairs[i][1]]

\* [i[1] for i in gateway]
NewNames(pairs) == [i \in 1..Len(pairs) |-> pairs[i][2]]

\* mutant: only the required columns are selected
ExportColumns_required == INVOICE_REQUIRED_FIELDS

\* INVOICE_REQUIRED_FIELDS + INVOICE_OPTIONAL_FIELDS
ExportColumns == INVOICE_REQUIRED_FIELDS \o INVOICE_OPTIONAL_FIELDS

\* a field of the file: NaN is written as the empty field
CsvField(c) == IF IsNull(c) THEN <<>> ELSE Val(c)

\* invoices[cols].to_csv(fn, index=False, sep=';'): a header row, then one
\* record per row with the fields in the order of cols
ToCsv(t, cols) ==
    [header |-> cols,
     records |-> [i \in 1..Len(t) |->
                     [j \in 1..Len(cols) |-> CsvField(t[i][cols[j]])]]]

GenAbort(e) ==
    /\ gpc' = "aborted"
    /\ err' = e

\* lines 133-136: the query raises, or its result is bound to invoices
GetInvoices ==
    /\ gpc = "get_invoices"
    /\ log' = Append(log, Msg("info", "tripletex_generate", <<"generating">>))
    /\ IF query_ok
       THEN /\ invoices' = db_rows
            /\ queried' = db_rows
            /\ gpc' = "rename"
            /\ UNCHANGED err
       ELSE /\ GenAbort("Exception")
            /\ UNCHANGED <<invoices, queried>>
    /\ UNCHANGED <<gateway, df, pc, tests_passed, result>>
    /\ UNCHANGED <<cli_gateway, query_ok, columns, db_rows, file>>
    /\ UNCHANGED syncvars

\* lines 137-140
Rename ==
    /\ gpc = "rename"
    /\ log' = Append(log, Msg("info", "tripletex_generate", <<"verifying">>))
    /\ IF IsNull(cli_gateway)
       THEN /\ gpc' = "verify"
            /\ UNCHANGED <<invoices, queried, err>>
       ELSE IF ~HasColumns({"PAYMENT TYPE"})
       THEN /\ GenAbort("KeyError")
            /\ UNCHANGED <<invoices, queried>>
       ELSE LET out == replace_invoice_gateway(invoices,
                                                   PyDict(Val(cli_gateway)))
            IN  /\ queried' = out.arg
                /\ invoices' = out.ret
                /\ gpc' = "verify"
                /\ UNCHANGED err
    /\ UNCHANGED <<gateway, df, pc, tests_passed, result>>
    /\ UNCHANGED <<cli_gateway, query_ok, columns, db_rows, file>>
    /\ UNCHANGED syncvars

\* line 142: the argument list is evaluated, then verify_invoices is
\* entered; iterating over gateway = None raises TypeError
CallVerify ==
    /\ gpc = "verify"
    /\ IF IsNull(cli_gateway)
       THEN /\ GenAbort("TypeError")
            /\ UNCHANGED <<gateway, df, pc>>
       ELSE /\ gateway' = Some(NewNames(Val(cli_gateway)))
            /\ df' = invoices
            /\ pc' = "start"
            /\ gpc' = "verifying"
            /\ UNCHANGED err
    /\ UNCHANGED <<invoices, tests_passed, log, result>>
    /\ UNCHANGED <<cli_gateway, query_ok, columns, db_rows, queried, file>>
    /\ UNCHANGED syncvars

\* verify_invoices returned: its verdict is dropped
VerifyReturned ==
    /\ gpc = "verifying"
    /\ pc = "done"
    /\ gpc' = "export"
    /\ UNCHANGED <<invoices, gateway, df, pc, tests_passed, log, err, result>>
    /\ UNCHANGED <<cli_gateway, query_ok, columns, db_rows, queried, file>>
    /\ UNCHANGED syncvars

\* an exception of verify_invoices is not caught
VerifyRaised ==
    /\ gpc = "verifying"
    /\ pc = "raised"
    /\ gpc' = "aborted"
    /\ UNCHANGED <<invoices, gateway, df, pc, tests_passed, log, err, result>>
    /\ UNCHANGED <<cli_gateway, query_ok, columns, db_rows, queried, file>>
    /\ UNCHANGED syncvars

\* lines 143-151
Export ==
    /\ gpc = "export"
    /\ IF HasColumns(Range(ExportColumns))
       THEN /\ file' = Some(ToCsv(invoices, ExportColumns))
            /\ log' = Append(log,
                             Msg("info", "tripletex_generate", <<"written">>))
            /\ gpc' = "done"
            /\ UNCHANGED err
       ELSE /\ GenAbort("KeyError")
            /\ UNCHANGED <<file, log>>
    /\ UNCHANGED <<invoices, gateway, df, pc, tests_passed, result>>
    /\ UNCHANGED <<cli_gateway, query_ok, columns, db_rows, queried>>
    /\ UNCHANGED syncvars

NextGenerate ==
    \/ GetInvoices
    \/ Rename
    \/ CallVerify
    \/ VerifyStart
    \/ Refunds
    \/ GiftCards
    \/ OrderNo
    \/ InvoiceNo
    \/ NoneValues
    \/ DescriptionOrSku
    \/ Price
    \/ UnknownGateway
    \/ VerifyFinish
    \/ VerifyReturned
    \/ VerifyRaised
    \/ Export

(***************************************************************************)
(* Input tables.                                                           *)
(***************************************************************************)
STRIPE == <<"S", "t">>
VIPPS == <<"V", "i">>
SKU == <<"K", "1">>
TEXT == <<"x">>

\* '#1001'-style order name
OrderName(prefix, k) == <<prefix>> \o PyStr(k)

MkRow(o, inv, paid, cnt, unit, disc, pay, prodno, desc) ==
    [c \in QueryColumns |->
        CASE c = "ORDER NO" -> o
          [] c = "INVOICE NO" -> inv
          [] c = "PAID AMOUNT" -> paid
          [] c = "ORDER LINE - COUNT" -> cnt
          [] c = "ORDER LINE - UNIT PRICE" -> unit
          [] c = "ORDER LINE - DISCOUNT" -> disc
          [] c = "PAYMENT TYPE" -> pay
          [] c = "ORDER LINE - PROD NO" -> prodno
          [] c = "ORDER LINE - DESCRIPTION" -> desc
          [] c \in {"transaction_id", "order_id"} -> Some(1)
          [] OTHER -> Some(TEXT)]

\* a line of order #k on invoice k that passes every check
CleanRow(k) ==
    MkRow(Some(OrderName("#", k)), Some(k), Some(100), Some(1), Some(100),
          Some(0), Some(STRIPE), Some(SKU), Some(TEXT))

With(r, c, v) == [r EXCEPT ![c] = v]

\* all tables of at most MaxRows rows drawn from U
TablesOf(U) == UNION {[1..n -> U] : n \in 0..MaxRows}

\* rows for the verdict and for the error paths of verify_invoices
VerdictRows ==
    {CleanRow(k) : k \in 1..MaxNo}
    \cup { With(With(CleanRow(1), "PAID AMOUNT", Some(-100)),
                "ORDER LINE - UNIT PRICE", Some(-100)),
           With(With(CleanRow(2), "PAID AMOUNT", Some(0)),
                "ORDER LINE - UNIT PRICE", Some(0)),
           With(CleanRow(2), "ORDER LINE - PROD NO", Some(GIFTCARD)),
           With(CleanRow(1), "ORDER LINE - UNIT PRICE", Some(50)),
           With(CleanRow(1), "INVOICE NO", Null),
           With(CleanRow(1), "ORDER NO", Null),
           With(CleanRow(1), "ORDER NO", Some(<<"#", "x">>)),
           With(CleanRow(1), "PAID AMOUNT", Null) }

InitWith(U, G) ==
    /\ invoices \in TablesOf(U)
    /\ gateway \in G
    /\ df = invoices
    /\ pc = "start"
    /\ tests_passed = <<>>
    /\ log = <<>>
    /\ err = ""
    /\ result = Null
    /\ gpc = "none"
    /\ cli_gateway = Null
    /\ query_ok = TRUE
    /\ columns = QueryColumns
    /\ db_rows = invoices
    /\ queried = invoices
    /\ file = Null
    /\ SyncIdle

Init == InitWith(VerdictRows, {Null})

Spec == Init /\ [][Next]_vars

\* rows for the required-field check: one required field missing (NaN, or
\* '' in a text column)
RequiredRows ==
    {CleanRow(k) : k \in 1..MaxNo}
    \cup {With(CleanRow(1), INVOICE_REQUIRED_FIELDS[i], Null) :
             i \in 1..Len(INVOICE_REQUIRED_FIELDS)}
    \cup {With(CleanRow(2), "ORDER LINE - VAT CODE", Some(<<>>))}

InitRequired == InitWith(RequiredRows, {Null})

SpecRequired == InitRequired /\ [][Next]_vars

\* a line of order k: the order's paid amount and the line's count, unit
\* price and discount
PriceRow(k, paid, cnt, unit, disc) ==
    MkRow(Some(OrderName("#", k)), Some(1), Some(paid), Some(cnt), Some(unit),
          Some(disc), Some(STRIPE), Some(SKU), Some(TEXT))

\* rows for price reconciliation: deviations of 0%, 1%, 2% and more, in
\* both directions of the sign of the paid amount
PriceRows ==
    {PriceRow(1, paid, l[1], l[2], l[3]) :
        paid \in {100, 200},
        l \in {<<1, 100, 0>>, <<1, 99, 0>>, <<1, 98, 0>>, <<2, 100, 50>>,
               <<1, 1, 0>>}}
    \cup {PriceRow(2, -100, 1, u, 0) : u \in {-100, -101, -102}}
    \cup {With(PriceRow(1, 100, 1, 100, 0), "ORDER LINE - DISCOUNT", Null)}

InitPrice == InitWith(PriceRows, {Null})

SpecPrice == InitPrice /\ [][Next]_vars

\* rows for order-number continuity: two prefix characters, paid and refunded
OrderRows ==
    {With(CleanRow(1), "ORDER NO", Some(OrderName(p, k))) :
        p \in {"#", "A"}, k \in 1..(MaxNo + 1)}
    \cup {With(With(With(CleanRow(1), "ORDER NO", Some(OrderName("#", k))),
                    "PAID AMOUNT", Some(-100)),
               "ORDER LINE - UNIT PRICE", Some(-100)) : k \in {2, MaxNo + 1}}

InitOrderNo == InitWith(OrderRows, {Null})

SpecOrderNo == InitOrderNo /\ [][Next]_vars

\* rows for invoice-number continuity
InvoiceRows ==
    {With(CleanRow(k), "INVOICE NO", Some(n)) :
        k \in 1..2, n \in 1..(MaxNo + 1)}

InitInvoiceNo == InitWith(InvoiceRows, {Null})

SpecInvoiceNo == InitInvoiceNo /\ [][Next]_vars

\* rows for the gateway allowlist: known, unknown, NaN and '' payment types
GatewayRows ==
    {With(CleanRow(k), "PAYMENT TYPE", p) :
        k \in 1..2, p \in {Some(STRIPE), Some(VIPPS), Null, Some(<<>>)}}

InitGateway == InitWith(GatewayRows, {Null, Some(<<STRIPE>>)})

SpecGateway == InitGateway /\ [][Next]_vars

\* rows for identifier-or-description presence
SkuRows ==
    {With(With(CleanRow(k), "ORDER LINE - PROD NO", p),
          "ORDER LINE - DESCRIPTION", d) :
        k \in 1..2, p \in {Some(SKU), Null, Some(<<>>)}, d \in {Some(TEXT), Null}}

InitSku == InitWith(SkuRows, {Null})

SpecSku == InitSku /\ [][Next]_vars

\* tripletex_generate started on the query result T with -g from G
InitGenerate(T, G, Q, C) ==
    /\ columns \in C
    /\ db_rows \in T
    /\ cli_gateway \in G
    /\ query_ok \in Q
    /\ gpc = "get_invoices"
    /\ invoices = <<>>
    /\ queried = <<>>
    /\ gateway = Null
    /\ df = <<>>
    /\ pc = "idle"
    /\ tests_passed = <<>>
    /\ log = <<>>
    /\ err = ""
    /\ result = Null
    /\ file = Null
    /\ SyncIdle

LSTRIPE == <<"s", "t">>

\* -g st:St  and  -g st:St St:Vi
RenameOne == << <<LSTRIPE, STRIPE>> >>

RenameTwo == << <<LSTRIPE, STRIPE>>, <<STRIPE, VIPPS>> >>

\* rows for the rename and the export: old, new, unknown and NaN gateways
GenerateRows ==
    {With(CleanRow(k), "PAYMENT TYPE", p) :
        k \in 1..2, p \in {Some(LSTRIPE), Some(STRIPE), Some(VIPPS), Null}}

InitGen ==
    InitGenerate(TablesOf(GenerateRows),
                 {Null, Some(RenameOne), Some(RenameTwo)},
                 {TRUE}, {QueryColumns})

SpecGenerate == InitGen /\ [][NextGenerate]_vars

\* the rows of t with the columns cols only
Restrict(t, cols) == [i \in 1..Len(t) |-> [c \in cols |-> t[i][c]]]

\* the query result has every column, or lacks one of the 17 columns that
\* the validator and the exporter read
AbortColumns ==
    {QueryColumns} \cup
        {QueryColumns \ {c} :
            c \in Range(INVOICE_REQUIRED_FIELDS \o INVOICE_OPTIONAL_FIELDS)}

AbortRows ==
    {CleanRow(1), CleanRow(2),
     With(CleanRow(2), "PAYMENT TYPE", Some(VIPPS))}

\* the query fails or succeeds, with or without -g
InitAbort ==
    InitGenerate({Restrict(t, columns) : t \in TablesOf(AbortRows)},
                 {Null, Some(RenameOne)}, BOOLEAN, AbortColumns)

SpecAbort == InitAbort /\ [][NextGenerate]_vars

\* lines of a two-line order #1 and of a one-line order #2, each paid 100,
\* with the unit price exact or 5 short and the VAT code present or null
EndToEndRows ==
    {With(With(CleanRow(l[1]), "ORDER LINE - UNIT PRICE", Some(l[2])),
          "ORDER LINE - VAT CODE", v) :
        l \in {<<1, 50>>, <<1, 45>>, <<2, 100>>, <<2, 95>>},
        v \in {Some(TEXT), Null}}

InitEndToEnd ==
    InitGenerate(TablesOf(EndToEndRows), {Null, Some(RenameOne)},
                 {TRUE}, {QueryColumns})

SpecEndToEnd == InitEndToEnd /\ [][NextGenerate]_vars

\* paid orders #1 and #3, and an order #2 refunded or paid exactly 0
RefundRows ==
    {CleanRow(1), CleanRow(3)}
    \cup { With(With(CleanRow(2), "PAID AMOUNT", Some(-100)),
                "ORDER LINE - UNIT PRICE", Some(-100)),
           With(With(CleanRow(2), "PAID AMOUNT", Some(0)),
                "ORDER LINE - UNIT PRICE", Some(0)) }

InitRefund == InitWith(RefundRows, {Null})

SpecRefund == InitRefund /\ [][Next]_vars

(***************************************************************************)
(* Synchronisation with the remote shop (src/shopify.py, src/db.py).       *)
(***************************************************************************)
\* neither verify_invoices nor tripletex_generate is running
TripletexIdle ==
    /\ invoices = <<>>
    /\ gateway = Null
    /\ df = <<>>
    /\ pc = "idle"
    /\ tests_passed = <<>>
    /\ log = <<>>
    /\ err = ""
    /\ result = Null
    /\ gpc = "none"
    /\ cli_gateway = Null
    /\ query_ok = TRUE
    /\ columns = QueryColumns
    /\ db_rows = <<>>
    /\ queried = <<>>
    /\ file = Null

\* max. number of retried api calls before aborting
_RETRY_LIMIT == 10

\* r.status_code: success, rate limit, server error
Statuses == {200, 429, 500}

\* the while loop of fetch_all (lines 122-151) and of fetch_single (lines
\* 167-189): one iteration with its request, or, once the loop condition
\* fails, the return of the body of the last response
FetchStep ==
    /\ fpc = "loop"
    /\ IF retries < _RETRY_LIMIT
       THEN \E status_code \in Statuses :
                /\ retries' = retries + 1
                /\ responses' = Append(responses, status_code)
                /\ IF status_code = 200
                   THEN /\ fpc' = "returned"
                        /\ UNCHANGED sleeps
                   ELSE IF retries' < _RETRY_LIMIT - 1
                   THEN /\ sleeps' = sleeps + 1
                        /\ fpc' = "loop"
                   ELSE /\ fpc' = "raised"
                        /\ UNCHANGED sleeps
       ELSE /\ fpc' = "returned"
            /\ UNCHANGED <<retries, responses, sleeps>>
    /\ UNCHANGED fetcher
    /\ UNCHANGED <<batchvars, upsertvars, runvars, queryvars, pagevars>>
    /\ UNCHANGED tripletexvars

NextFetch == FetchStep

InitFetch ==
    /\ TripletexIdle
    /\ PagerIdle
    /\ fetcher \in {"fetch_all", "fetch_single"}
    /\ retries = 0
    /\ responses = <<>>
    /\ sleeps = 0
    /\ fpc = "loop"
    /\ BatchIdle
    /\ UpsertIdle
    /\ RunIdle
    /\ QueryIdle

SpecFetch == InitFetch /\ [][NextFetch]_vars

\* what fetch_single gives for one order: it raises (retries used up), or
\* it returns a body without the key asked for, with an empty list under
\* it, or with one record under it.  A record is named by the position of
\* its order in order_ids; a refund comes with one refund line item.
Replies == {"raise", "no key", "empty", "one"}

\* 'ind and (ind % 10 == 0) or ind == len(order_ids)-1', ind counted from 0
FlushAt(i, n) == (i # 0 /\ i % 10 = 0) \/ i = n - 1

\* one iteration of 'for ind, i in enumerate(order_ids)' of
\* update_transactions (lines 354-378) and of update_refunds (lines
\* 393-427); for update_refunds pending, written and transactions_cnt stand for the
\* refunds and likewise for their line items, which are appended, passed
\* and counted in the same statements
BatchStep ==
    /\ bpc = "loop"
    /\ ind < order_ids
    /\ \E reply \in Replies :
           IF reply = "raise"
           THEN /\ bpc' = "raised"
                /\ UNCHANGED <<ind, pending, received, written, transactions_cnt>>
           ELSE IF reply = "no key" /\ batcher = "update_refunds"
           THEN \* refunds['refunds'] raises KeyError
                /\ bpc' = "raised"
                /\ UNCHANGED <<ind, pending, received, written, transactions_cnt>>
           ELSE IF reply = "no key"
           THEN \* if 'transactions' not in transaction: continue
                /\ ind' = ind + 1
                /\ UNCHANGED <<pending, received, written, transactions_cnt, bpc>>
           ELSE LET got == IF reply = "one" THEN <<ind>> ELSE <<>>
                    list == pending \o got
                IN  /\ received' = received \o got
                    /\ IF FlushAt(ind, order_ids)
                       THEN /\ written' = Append(written, list)
                            /\ transactions_cnt' = transactions_cnt + Len(list)
                            /\ pending' = <<>>
                       ELSE /\ pending' = list
                            /\ UNCHANGED <<written, transactions_cnt>>
                    /\ ind' = ind + 1
                    /\ UNCHANGED bpc
    /\ UNCHANGED <<batcher, order_ids>>
    /\ UNCHANGED <<fetchvars, upsertvars, runvars, queryvars, pagevars>>
    /\ UNCHANGED tripletexvars

\* the loop is over: the count is logged and the function returns
BatchReturn ==
    /\ bpc = "loop"
    /\ ind = order_ids
    /\ bpc' = "returned"
    /\ UNCHANGED <<batcher, order_ids, ind, pending, received, written,
                   transactions_cnt>>
    /\ UNCHANGED <<fetchvars, upsertvars, runvars, queryvars, pagevars>>
    /\ UNCHANGED tripletexvars

NextBatch == BatchStep \/ BatchReturn

InitBatch ==
    /\ TripletexIdle
    /\ PagerIdle
    /\ FetchIdle
    /\ batcher \in {"update_transactions", "update_refunds"}
    /\ order_ids \in 0..MaxOrders
    /\ ind = 0
    /\ pending = <<>>
    /\ received = <<>>
    /\ written = <<>>
    /\ transactions_cnt = 0
    /\ bpc = "loop"
    /\ UpsertIdle
    /\ RunIdle
    /\ QueryIdle

SpecBatch == InitBatch /\ [][NextBatch]_vars

\* the columns of the records the callers in src/shopify.py supply
\* (lines 253-265, 361-372, 222-226, 296-300)
SuppliedColumns(t) ==
    CASE t = "orders" ->
           {"id", "customer_id", "name", "created_at", "processed_at",
            "closed_at", "fulfillment_status", "financial_status",
            "total_price", "total_line_items_price",
            "total_discounts_amount", "total_tax_amount", "taxes_included",
            "currency"}
      [] t = "transactions" ->
           {"id", "order_id", "status", "amount", "currency", "error_code",
            "gateway", "kind", "created_at", "processed_at"}
      [] t = "customers" ->
           {"id", "email", "name", "first_name", "last_name", "phone",
            "address", "city", "country", "zip", "note", "created_at",
            "updated_at", "total_spent", "verified_email",
            "accepts_marketing"}
      [] t = "line_item_products" ->
           {"id", "order_id", "product_id", "title", "sku", "unit_price",
            "total_price", "total_discount_amount", "quantity", "vendor",
            "variant_title", "tax_amount", "tax_rate", "tax_title",
            "taxable", "currency"}

\* the columns assigned by ON CONFLICT (id) DO UPDATE SET of Db.update_orders,
\* update_transactions, update_customers and update_line_item_products
SetColumns(t) ==
    CASE t = "orders" ->
           {"customer_id", "name", "fulfillment_status", "total_price",
            "total_line_items_price", "total_discounts_amount",
            "total_tax_amount", "taxes_included", "created_at",
            "processed_at", "closed_at"}
      [] t = "transactions" ->
           {"order_id", "status", "currency", "error_code", "gateway",
            "kind", "created_at", "processed_at"}
      [] t = "customers" ->
           {"email", "name", "first_name", "last_name", "phone", "address",
            "city", "zip", "country", "total_spent", "verified_email",
            "accepts_marketing", "created_at", "updated_at"}
      [] t = "line_item_products" ->
           {"order_id", "product_id", "title", "sku", "unit_price",
            "total_price", "total_discount_amount", "vendor",
            "variant_title", "tax_amount", "tax_rate", "taxable",
            "currency", "quantity"}

\* the ids of a list of records
IdsOf(batch) == {batch[k]["id"] : k \in 1..Len(batch)}

\* INSERT ... VALUES batch ON CONFLICT (id) DO UPDATE SET c = excluded.c for
\* the columns c of setcols: a new id is inserted as supplied, an existing
\* row takes the supplied values of the columns of setcols only
Upsert(tbl, batch, setcols) ==
    [i \in (DOMAIN tbl) \cup IdsOf(batch) |->
        IF i \in IdsOf(batch)
        THEN LET r == batch[CHOOSE k \in 1..Len(batch) : batch[k]["id"] = i]
             IN  IF i \in DOMAIN tbl
                 THEN [c \in DOMAIN tbl[i] |->
                          IF c \in setcols THEN r[c] ELSE tbl[i][c]]
                 ELSE r
        ELSE tbl[i]]

\* the columns whose value differs between the records of the model: the
\* ones the tables are asked about and one more
VariedColumns(t) ==
    CASE t = "orders" -> {"financial_status", "currency", "total_price"}
      [] t = "transactions" -> {"amount", "status"}
      [] t = "customers" -> {"note", "email"}
      [] t = "line_item_products" -> {"tax_title", "title"}

\* records of ids 1 and 2 that differ from one another in one column
RecordsOf(t) ==
    LET base(i) == [c \in SuppliedColumns(t) |-> IF c = "id" THEN i ELSE "a"]
    IN  {base(i) : i \in 1..2}
        \cup {[base(i) EXCEPT ![c] = "b"] : i \in 1..2, c \in VariedColumns(t)}

BatchesOf(t) == UNION {[1..n -> RecordsOf(t)] : n \in 0..MaxBatch}

\* one call of Db.update_orders, update_transactions, update_customers or
\* update_line_item_products with a list of records.  Only
\* update_transactions tests for the empty list, the others raise
\* IndexError on records[0]; two records with one id in the same statement
\* make the database reject it.
UpsertCall ==
    /\ upc = "ready"
    /\ upserts < MaxUpserts
    /\ \E batch \in BatchesOf(utable) :
           IF Len(batch) = 0
           THEN /\ upc' = IF utable = "transactions" THEN "ready" ELSE "raised"
                /\ upserts' = upserts + 1
                /\ UNCHANGED <<stored, supplied>>
           ELSE IF Cardinality(IdsOf(batch)) < Len(batch)
           THEN /\ upc' = "raised"
                /\ upserts' = upserts + 1
                /\ UNCHANGED <<stored, supplied>>
           ELSE /\ stored' = Upsert(stored, batch, SetColumns(utable))
                /\ supplied' =
                       [i \in (DOMAIN supplied) \cup IdsOf(batch) |->
                           IF i \in IdsOf(batch)
                           THEN batch[CHOOSE k \in 1..Len(batch) :
                                          batch[k]["id"] = i]
                           ELSE supplied[i]]
                /\ upserts' = upserts + 1
                /\ UNCHANGED upc
    /\ UNCHANGED utable
    /\ UNCHANGED <<fetchvars, batchvars, runvars, queryvars, pagevars>>
    /\ UNCHANGED tripletexvars

NextUpsert == UpsertCall

InitUpsert ==
    /\ TripletexIdle
    /\ PagerIdle
    /\ FetchIdle
    /\ BatchIdle
    /\ utable \in {"orders", "transactions", "customers",
                   "line_item_products"}
    /\ stored = <<>>
    /\ supplied = <<>>
    /\ upserts = 0
    /\ upc = "ready"
    /\ RunIdle
    /\ QueryIdle

SpecUpsert == InitUpsert /\ [][NextUpsert]_vars

\* financial_status values of the shop
PAID == <<"p", "a", "i", "d">>

REFUNDED == <<"r", "e", "f", "u", "n", "d", "e", "d">>

PARTIALLY_REFUNDED ==
    <<"p", "a", "r", "t", "i", "a", "l", "l", "y", "_">> \o REFUNDED

REFUND == <<"r", "e", "f", "u", "n", "d">>

\* Series.str.contains(sub), sub without regex metacharacters
StrContains(str, sub) ==
    \E k \in 0..(Len(str) - Len(sub)) :
        \A j \in 1..Len(sub) : str[k + j] = sub[j]

\* the record update_orders builds for order i of the shop
OrderRecord(i, financial_status) ==
    [c \in SuppliedColumns("orders") |->
        CASE c = "id" -> i
          [] c = "financial_status" -> financial_status
          [] OTHER -> "a"]

RECURSIVE RecordsById(_, _)
\* the orders of the shop as the API lists them
RecordsById(shop, ids) ==
    IF ids = {} THEN <<>>
    ELSE <<OrderRecord(SetMin(ids), shop[SetMin(ids)])>>
             \o RecordsById(shop, ids \ {SetMin(ids)})

\* one run of shopify_update over a date range that holds every order of
\* the shop: update_orders (lines 78-80), db.get_orders (82-86),
\* refunded_order_ids (91-92), update_refunds (93)
ShopifyUpdate ==
    /\ utable = "orders"
    /\ runs < MaxRuns
    /\ LET fetched == RecordsById(remote, DOMAIN remote)
           tbl == IF Len(fetched) = 0 THEN stored
                  ELSE Upsert(stored, fetched, SetColumns("orders"))
       IN  /\ stored' = tbl
           /\ refunded_order_ids' =
                  {i \in DOMAIN tbl :
                      StrContains(tbl[i]["financial_status"], REFUND)}
    /\ remote_seen' = remote
    /\ runs' = runs + 1
    /\ UNCHANGED <<remote, utable, supplied, upserts, upc>>
    /\ UNCHANGED <<fetchvars, batchvars, queryvars, pagevars>>
    /\ UNCHANGED tripletexvars

\* a customer places an order
ShopOrder ==
    /\ utable = "orders"
    /\ Len(remote) < MaxShopOrders
    /\ remote' = Append(remote, PAID)
    /\ UNCHANGED <<remote_seen, refunded_order_ids, runs>>
    /\ UNCHANGED <<fetchvars, batchvars, upsertvars, queryvars, pagevars>>
    /\ UNCHANGED tripletexvars

\* the shop refunds an order, in part or in full
ShopRefund ==
    /\ utable = "orders"
    /\ \E i \in DOMAIN remote :
           \E st \in {PARTIALLY_REFUNDED, REFUNDED} :
               /\ remote[i] # REFUNDED
               /\ remote[i] # st
               /\ remote' = [remote EXCEPT ![i] = st]
    /\ UNCHANGED <<remote_seen, refunded_order_ids, runs>>
    /\ UNCHANGED <<fetchvars, batchvars, upsertvars, queryvars, pagevars>>
    /\ UNCHANGED tripletexvars

NextRun == ShopifyUpdate \/ ShopOrder \/ ShopRefund

InitRun ==
    /\ TripletexIdle
    /\ PagerIdle
    /\ FetchIdle
    /\ BatchIdle
    /\ utable = "orders"
    /\ stored = <<>>
    /\ supplied = <<>>
    /\ upserts = 0
    /\ upc = "idle"
    /\ remote = <<>>
    /\ remote_seen = <<>>
    /\ refunded_order_ids = {}
    /\ runs = 0
    /\ QueryIdle

SpecRun == InitRun /\ [][NextRun]_vars

\* the rows of the view tripletex_invoice, one per order line: its order,
\* its payment_tag (taken to be NOT NULL) and whether its "ORDER DATE"
\* lies BETWEEN the two dates of the query
ViewRows ==
    {[order_no |-> OrderName("#", k), payment_tag |-> g, in_range |-> d] :
        k \in 1..2, g \in {STRIPE, VIPPS}, d \in BOOLEAN}

\* the keys of GROUP BY "ORDER NO", payment_tag over the rows in range
GroupsOf(v) ==
    {<<v[i].order_no, v[i].payment_tag>> :
        i \in {k \in 1..Len(v) : v[k].in_range}}

\* the ways ROW_NUMBER() OVER() can number the groups: no order is given
Numberings(groups) ==
    {f \in [groups -> 1..Cardinality(groups)] :
        \A a, b \in groups : a # b => f[a] # f[b]}

\* tripletex_invoice ti RIGHT JOIN ind ON both keys: every row of the view
\* (in range or not) that has the keys of a group, with
\* "INVOICE NO" = start + number of the group - 1
Joined(v, numbering, start) ==
    LET hit == SelectSeq(v, LAMBDA r :
                   <<r.order_no, r.payment_tag>> \in DOMAIN numbering)
    IN  [i \in 1..Len(hit) |->
            [ti |-> hit[i],
             invoice_no |->
                 start + numbering[<<hit[i].order_no, hit[i].payment_tag>>] - 1]]

\* the orders that ORDER BY "INVOICE NO", "CUSTOMER NAME" allows (the rows
\* of the model carry one customer name): rows of equal keys in any order
OrderedBy(rows) ==
    {p \in [1..Len(rows) -> Range(rows)] :
        /\ \A r \in Range(rows) :
               Cardinality({i \in 1..Len(rows) : p[i] = r})
                   = Cardinality({i \in 1..Len(rows) : rows[i] = r})
        /\ \A i, j \in 1..Len(rows) :
               i < j => p[i].invoice_no <= p[j].invoice_no}

\* the statement of lines 353-393 run on the view
GetTripletexInvoice ==
    /\ qpc = "ready"
    /\ \E numbering \in Numberings(GroupsOf(view)) :
           qresult' \in OrderedBy(Joined(view, numbering, invoice_start_id))
    /\ qpc' = "done"
    /\ UNCHANGED <<view, invoice_start_id>>
    /\ UNCHANGED <<fetchvars, batchvars, upsertvars, runvars, pagevars>>
    /\ UNCHANGED tripletexvars

\* the result as the table read by pd.read_sql
ResultTable(res) ==
    [i \in 1..Len(res) |->
        MkRow(Some(res[i].ti.order_no), Some(res[i].invoice_no), Some(100),
              Some(1), Some(100), Some(0), Some(res[i].ti.payment_tag),
              Some(SKU), Some(TEXT))]

NextQuery == GetTripletexInvoice

InitQuery ==
    /\ TripletexIdle
    /\ PagerIdle
    /\ FetchIdle
    /\ BatchIdle
    /\ UpsertIdle
    /\ RunIdle
    /\ view \in TablesOf(ViewRows)
    /\ invoice_start_id \in {1, 8}
    /\ qresult = <<>>
    /\ qpc = "ready"

SpecQuery == InitQuery /\ [][NextQuery]_vars

\* ---- the paging loop of update_customers, update_orders and
\* ---- update_products_and_variants

Pagers == {"update_customers", "update_orders", "update_products_and_variants"}

\* limit, the default of the three functions
LIMIT == 250

\* the field list each function asks for
FieldsOf(p) ==
    CASE p = "update_customers" -> "CUSTOMER_FIELDS"
      [] p = "update_orders" -> "ORDER_FIELDS"
      [] p = "update_products_and_variants" -> "PRODUCT_FIELDS"

\* filter_on_status: update_products_and_variants passes False
FilterOnStatus(p) == p # "update_products_and_variants"

\* the parameters of the GET request of fetch_all: the status and the
\* created_at filters are None when a page token is given
Params(p, created, token) ==
    [limit |-> LIMIT,
     status |-> IF FilterOnStatus(p) /\ token = Null THEN Some("any") ELSE Null,
     created_at_min |-> IF token = Null THEN created[1] ELSE Null,
     created_at_max |-> IF token = Null THEN created[2] ELSE Null,
     page_info |-> token,
     fields |-> FieldsOf(p)]

\* the Link header of the response that serves page k of n: an entry
\* <url?...page_info=token>; rel="..." for each neighbour page, and no
\* header when there is none.  The token of page k is k.
LinkHeader(k, n) ==
    LET previous == IF k > 1
                    THEN <<[rel |-> "previous", page_info |-> k - 1]>>
                    ELSE <<>>
        next == IF k < n
                THEN <<[rel |-> "next", page_info |-> k + 1]>>
                ELSE <<>>
    IN  IF previous \o next = <<>> THEN Null ELSE Some(previous \o next)

\* pagination_links: next and previous are None unless an entry of the
\* Link header has that rel, and then they are its page_info
RECURSIVE links_of(_, _)
links_of(entries, links) ==
    IF entries = <<>> THEN links
    ELSE links_of(Tail(entries),
                  [links EXCEPT ![Head(entries).rel] = Some(Head(entries).page_info)])

pagination_links(rest_header) ==
    LET links == [rel \in {"next", "previous"} |-> Null]
    IN  IF rest_header = Null THEN links
        ELSE links_of(rest_header[1], links)

\* the records with which the shop answers a request: the first page
\* without a token, the page of the token otherwise.  A record is TRUE
\* when it has the nested object the function reads (the default_address
\* of a customer, a shipping line of an order) and FALSE when it has not.
Served(token) == IF token = Null THEN 1 ELSE token[1]

\* the ids of the records of page k
IdsOfPage(k) == [j \in 1..Len(pages[k]) |-> 2 * (k - 1) + j]

\* what one pass of the loop body does with a non-empty page: the tables
\* it writes, in order, and whether it then raises.
\*  - update_customers reads df['default_address_phone'] before it writes;
\*    json_normalize makes that column only when some customer of the page
\*    has a default_address, so the read is a KeyError otherwise
\*  - update_orders writes the orders and the line items, then selects the
\*    columns of the shipping lines, a KeyError on the empty frame of a
\*    page none of whose orders has a shipping line
\*  - update_products_and_variants writes the products and the variants
PageBody(p, records) ==
    LET some == \E j \in 1..Len(records) : records[j]
    IN  CASE p = "update_customers" ->
                IF some THEN [tables |-> <<"customers">>, raised |-> FALSE]
                ELSE [tables |-> <<>>, raised |-> TRUE]
          [] p = "update_orders" ->
                IF some
                THEN [tables |-> <<"orders", "line_item_products", "shipping">>,
                      raised |-> FALSE]
                ELSE [tables |-> <<"orders", "line_item_products">>,
                      raised |-> TRUE]
          [] p = "update_products_and_variants" ->
                [tables |-> <<"products", "product_variants">>,
                 raised |-> FALSE]

\* one request of the trace, with the page that answered it (0 when
\* fetch_all raised) and the 'next' link of the answer
Request(params, k, next) ==
    [kind |-> "request", params |-> params, served |-> k, next |-> next,
     table |-> "", ids |-> <<>>]

\* one write of the trace: the table, the ids written, the page they are of
WriteOf(tbl, k) ==
    [kind |-> "write", params |-> <<>>, served |-> k, next |-> Null,
     table |-> tbl, ids |-> IdsOfPage(k)]

\* one pass of `while True`: fetch_all (which returns the answer with
\* status 200 or raises when its retries are used up), the break on an
\* empty page, the writes of the page, the break without a 'next' link
PagerStep ==
    /\ ppc = "loop"
    /\ \E ok \in BOOLEAN :
        LET params == Params(pager, created_at, page)
            k == Served(page)
            links == pagination_links(LinkHeader(k, Len(pages)))
            body == PageBody(pager, pages[k])
            writes == [j \in 1..Len(body.tables) |-> WriteOf(body.tables[j], k)]
        IN  IF ~ok
            THEN /\ trace' = Append(trace, Request(params, 0, Null))
                 /\ ppc' = "raised"
                 /\ page' = page
            ELSE IF Len(pages[k]) = 0
            THEN /\ trace' = Append(trace, Request(params, k, links["next"]))
                 /\ ppc' = "returned"
                 /\ page' = page
            ELSE /\ trace' = Append(trace, Request(params, k, links["next"])) \o writes
                 /\ IF body.raised
                    THEN ppc' = "raised" /\ page' = page
                    ELSE IF links["next"] = Null
                    THEN ppc' = "returned" /\ page' = page
                    ELSE ppc' = "loop" /\ page' = links["next"]
    /\ UNCHANGED <<pager, pages, created_at>>
    /\ UNCHANGED <<fetchvars, batchvars, upsertvars, runvars, queryvars>>
    /\ UNCHANGED tripletexvars

NextPager == PagerStep

\* the pages a shop can serve: none, one or two records
PageKinds == {<<>>, <<TRUE>>, <<FALSE>>, <<TRUE, FALSE>>}

\* the created_at_min and created_at_max arguments: shopify_update passes
\* both or neither
CreatedAt == {<<Null, Null>>, <<Some("2021-01-01"), Some("2021-01-31")>>}

\* each function on each shop of at most MaxPages pages
InitPager ==
    /\ TripletexIdle
    /\ FetchIdle /\ BatchIdle /\ UpsertIdle /\ RunIdle /\ QueryIdle
    /\ pager \in Pagers
    /\ \E n \in 1..MaxPages : pages \in [1..n -> PageKinds]
    /\ created_at \in CreatedAt
    /\ page = Null
    /\ trace = <<>>
    /\ ppc = "loop"

SpecPager == InitPager /\ [][NextPager]_vars

(***************************************************************************)
(* Properties.                                                             *)
(***************************************************************************)
\* the run of verify_invoices has ended, by return or by exception
Ended == pc \in {"done", "raised"}

\* check number n of the tests_passed list has returned
Ran(n) == Len(tests_passed) >= n

\* the messages logged by one function
LoggedBy(src) == SelectSeq(log, LAMBDA m : m.src = src)

RECURSIVE Ascending(_)
\* the elements of a set of ints, smallest first
Ascending(S) ==
    IF S = {} THEN <<>>
    ELSE <<SetMin(S)>> \o Ascending(S \ {SetMin(S)})

\* the integers strictly between the smallest and the largest of N not in N
Gaps(N) == {i \in (SetMin(N) + 1)..(SetMax(N) - 1) : i \notin N}

RECURSIVE SplitFrom(_, _, _)
SplitFrom(s, cur, acc) ==
    IF Len(s) = 0 THEN Append(acc, cur)
    ELSE IF Len(s) >= 2 /\ s[1] = "," /\ s[2] = " "
    THEN SplitFrom(Tail(Tail(s)), <<>>, Append(acc, cur))
    ELSE SplitFrom(Tail(s), Append(cur, s[1]), acc)

\* the items named by a message text of the form 'a, b, c'
Split(s) == SplitFrom(s, <<>>, <<>>)

\* C1: whenever verify_invoices returns, its verdict is the conjunction of
\* exactly the six checks order-number continuity, invoice-number
\* continuity, required fields, identifier-or-description, price and gateway
\* (elements 3..8 of tests_passed); refund rows and gift-card rows never
\* turn it to false.
C1_VerdictIsSixChecks ==
    pc = "done" =>
        Val(result) = (\A i \in 3..8 : tests_passed[i])

\* C2: the required-field check passes if and only if no row has a null in
\* any of the twelve required fields, and a null in a required field makes
\* the overall verdict false.
C2_RequiredFieldsComplete ==
    LET complete ==
            \A i \in 1..Len(df) : \A j \in 1..Len(INVOICE_REQUIRED_FIELDS) :
                ~IsNull(df[i][INVOICE_REQUIRED_FIELDS[j]])
    IN  /\ Ran(5) => (tests_passed[5] = complete)
        /\ (pc = "done" /\ ~complete) => (result = Some(FALSE))

\* C3: every run of verify_invoices executes all eight checks, whatever the
\* data in the table: when the run has ended, eight results were collected.
C3_AllChecksRun == Ended => Len(tests_passed) = 8

\* every cell the price reconciliation of the claim computes with is present
AmountsDefined(t) ==
    \A i \in 1..Len(t) :
        \A c \in {"ORDER NO", "PAID AMOUNT", "ORDER LINE - COUNT",
                  "ORDER LINE - UNIT PRICE", "ORDER LINE - DISCOUNT"} :
            ~IsNull(t[i][c])

\* the lines of order o, as row numbers of t
LinesOf(t, o) == {i \in 1..Len(t) : t[i]["ORDER NO"] = Some(o)}

RECURSIVE LinesTotal(_, _)
\* 100 * sum over the lines I of COUNT * UNIT PRICE * (100 - DISCOUNT) / 100
LinesTotal(t, I) ==
    IF I = {} THEN 0
    ELSE LET i == CHOOSE x \in I : TRUE
         IN  Val(t[i]["ORDER LINE - COUNT"])
                 * Val(t[i]["ORDER LINE - UNIT PRICE"])
                 * (100 - Val(t[i]["ORDER LINE - DISCOUNT"]))
             + LinesTotal(t, I \ {i})

\* paid: the PAID AMOUNT of the first line of order o
FirstPaid(t, o) == Val(t[SetMin(LinesOf(t, o))]["PAID AMOUNT"])

\* 100 * |paid - total| for order o
Deviation(t, o) ==
    Abs(100 * FirstPaid(t, o) - LinesTotal(t, LinesOf(t, o)))

OrdersOf(t) == {Val(t[i]["ORDER NO"]) : i \in 1..Len(t)}

ReportedBy(src) ==
    IF Len(LoggedBy(src)) = 0 THEN <<>>
    ELSE Split(LoggedBy(src)[1].args[2])

\* C5: over the rows with PAID AMOUNT >= 0, with N the integers parsed from
\* ORDER NO behind its one-character prefix, order-number continuity fails
\* if and only if an integer strictly between min(N) and max(N) is not in
\* N, and it reports exactly those integers, each prefixed with the marker
\* character the order numbers of the table carry.
C5_OrderNoContinuity ==
    Ran(3) =>
        LET incl == SelectSeq(df, PaidGE0)
            N == {ParseDigits(Tail(Val(incl[i]["ORDER NO"])), 0) :
                     i \in 1..Len(incl)}
            prefixes == {Val(incl[i]["ORDER NO"])[1] : i \in 1..Len(incl)}
            gaps == Ascending(Gaps(N))
        IN  /\ tests_passed[3] = (Gaps(N) = {})
            /\ \A p \in prefixes :
                  prefixes = {p} =>
                      ReportedBy("_order_no")
                          = [i \in 1..Len(gaps) |-> <<p>> \o PyStr(gaps[i])]

\* C6: over all rows, invoice-number continuity fails if and only if an
\* integer strictly between the smallest and the largest INVOICE NO does
\* not occur in the column, and it reports exactly those integers.
C6_InvoiceNoContinuity ==
    Ran(4) =>
        LET I == {Val(df[i]["INVOICE NO"]) : i \in 1..Len(df)}
            gaps == Ascending(Gaps(I))
        IN  /\ tests_passed[4] = (Gaps(I) = {})
            /\ ReportedBy("_invoice_no")
                   = [i \in 1..Len(gaps) |-> PyStr(gaps[i])]
            /\ Len(LoggedBy("_invoice_no")) <= 1

\* a table with a gap right above its smallest invoice number was checked
\* and the check failed
C6_Witness ==
    /\ Ran(4)
    /\ ~tests_passed[4]
    /\ LET I == {Val(df[i]["INVOICE NO"]) : i \in 1..Len(df)}
       IN  SetMin(I) + 1 \notin I /\ SetMax(I) > SetMin(I) + 1

\* C7: with allowlist None the gateway check passes for any table; with an
\* allowlist it fails if and only if some row's PAYMENT TYPE, a null one
\* included, is not a member of the allowlist, and it emits exactly one
\* warning per distinct (ORDER NO, unrecognized PAYMENT TYPE) pair.
C7_GatewayAllowlist ==
    Ran(8) =>
        IF IsNull(gateway)
        THEN tests_passed[8] /\ Len(LoggedBy("_unknown_gateway")) = 0
        ELSE LET member(r) ==
                     /\ ~IsNull(r["PAYMENT TYPE"])
                     /\ \E j \in 1..Len(Val(gateway)) :
                            Val(gateway)[j] = Val(r["PAYMENT TYPE"])
                 pairs ==
                     {<<df[i]["ORDER NO"], df[i]["PAYMENT TYPE"]>> :
                         i \in {x \in 1..Len(df) : ~member(df[x])}}
             IN  /\ tests_passed[8] = (\A i \in 1..Len(df) : member(df[i]))
                 /\ Len(LoggedBy("_unknown_gateway")) = Cardinality(pairs)

\* C8: identifier-or-description presence fails if and only if some row
\* has both ORDER LINE - PROD NO and ORDER LINE - DESCRIPTION null; the
\* orders it reports are exactly the distinct ORDER NO values of such rows;
\* a row with only one of the two null does not fail it.
C8_DescriptionOrSku ==
    Ran(6) =>
        LET bad ==
                {i \in 1..Len(df) :
                    /\ df[i]["ORDER LINE - PROD NO"] = Null
                    /\ df[i]["ORDER LINE - DESCRIPTION"] = Null}
            orders == {Val(df[i]["ORDER NO"]) : i \in bad}
            reported == ReportedBy("_description_or_sku")
        IN  /\ tests_passed[6] = (bad = {})
            /\ Range(reported) = orders
            /\ Len(reported) = Cardinality(orders)

\* a table with a row missing both, and a row of another order missing only
\* one of the two, was checked and only the first order was reported
C8_Witness ==
    /\ Ran(6)
    /\ ~tests_passed[6]
    /\ \E i, j \in 1..Len(df) :
          /\ df[i]["ORDER LINE - PROD NO"] = Null
          /\ df[i]["ORDER LINE - DESCRIPTION"] = Null
          /\ df[j]["ORDER LINE - PROD NO"] = Null
          /\ df[j]["ORDER LINE - DESCRIPTION"] # Null
          /\ df[j]["ORDER NO"] # df[i]["ORDER NO"]
          /\ ReportedBy("_description_or_sku") = <<Val(df[i]["ORDER NO"])>>

\* C9: on an empty table verify_invoices raises no error, every check
\* passes vacuously and the verdict is true; and when every row has
\* PAID AMOUNT < 0, order-number continuity raises no error and passes.
C9_EmptyRangesGuarded ==
    /\ (Len(invoices) = 0 /\ Ended) => (pc = "done" /\ result = Some(TRUE))
    /\ ( /\ Len(invoices) > 0
         /\ \A i \in 1..Len(invoices) : PaidLT0(invoices[i])
         /\ Ran(2)
         /\ pc # "_order_no" ) => (Ran(3) /\ tests_passed[3])

\* C10: for every table with all expected columns verify_invoices never
\* raises, whatever the cell contents: the run never ends in an exception.
\* (Tables without a row of PAID AMOUNT >= 0 are the subject of C9.)
C10_NeverRaises ==
    (\E i \in 1..Len(invoices) : PaidGE0(invoices[i])) => pc # "raised"

(***************************************************************************)
(* tripletex_generate.                                                     *)
(***************************************************************************)
GenEnded == gpc \in {"done", "aborted"}

\* the export file holds the rows of t in order, under the 12 required
\* then the 5 optional column names and nothing else
FileHolds(t) ==
    /\ ~IsNull(file)
    /\ LET f == Val(file)
       IN  /\ f.header = INVOICE_REQUIRED_FIELDS \o INVOICE_OPTIONAL_FIELDS
           /\ Len(f.header) = 17
           /\ Len(f.records) = Len(t)
           /\ \A i \in 1..Len(t) :
                  /\ Len(f.records[i]) = 17
                  /\ \A j \in 1..17 :
                         f.records[i][j] = CsvField(t[i][f.header[j]])

\* C11: when the query succeeds and the table has the expected columns,
\* a finished run of tripletex_generate has written the export file,
\* whatever the verdict, and the file holds every row of the invoice table
\* in its original order under exactly the 12 required and the 5 optional
\* columns.
C11_ExportAlwaysWritten ==
    (GenEnded /\ query_ok /\ HasColumns(QueryColumns)) => FileHolds(invoices)

\* a 3-line table of 2 orders: one order has a null VAT code, one order's
\* line total deviates 5% from its paid amount, the other one none
Scenario(t) ==
    /\ Len(t) = 3
    /\ Cardinality(OrdersOf(t)) = 2
    /\ Cardinality({o \in OrdersOf(t) :
           \E i \in LinesOf(t, o) : IsNull(t[i]["ORDER LINE - VAT CODE"])}) = 1
    /\ Cardinality({o \in OrdersOf(t) :
           Deviation(t, o) = 5 * Abs(FirstPaid(t, o))}) = 1
    /\ Cardinality({o \in OrdersOf(t) : Deviation(t, o) = 0}) = 1

\* the warnings logged by the checks themselves
CheckWarnings ==
    SelectSeq(log, LAMBDA m : /\ m.level = "warning"
                              /\ m.src \notin {"verify_invoices",
                                               "tripletex_generate"})

\* C12: tripletex_generate on the scenario table ends with the verdict
\* false, exactly two warnings from the checks, one of the required-field
\* check for ORDER LINE - VAT CODE and one of the price check, and an export
\* file that holds the 3 rows in order under the 17 columns.
C12_EndToEnd ==
    (GenEnded /\ Scenario(db_rows)) =>
        /\ result = Some(FALSE)
        /\ Len(CheckWarnings) = 2
        /\ \E i, j \in 1..2 :
               /\ CheckWarnings[i].src = "_none_values"
               /\ CheckWarnings[i].args[1] = "ORDER LINE - VAT CODE"
               /\ CheckWarnings[j].src = "_price"
        /\ FileHolds(db_rows)
        /\ Len(Val(file).records) = 3

\* C13: without -g (gateway = None) a finished run has skipped the rename,
\* has called the validator with no allowlist, so that the gateway check
\* passed without a message, and has written the export file whenever the
\* validator returned.
C13_NoMappingCompletes ==
    (IsNull(cli_gateway) /\ GenEnded /\ query_ok /\ HasColumns(QueryColumns))
        => /\ queried = db_rows
           /\ pc # "idle"
           /\ IsNull(gateway)
           /\ Len(LoggedBy("_unknown_gateway")) = 0
           /\ (pc = "done" => gpc = "done" /\ FileHolds(invoices))

\* the table t with PAYMENT TYPE v replaced by M[v] for the keys v of M
Renamed(t, M) ==
    [i \in 1..Len(t) |->
        [c \in DOMAIN t[i] |->
            IF /\ c = "PAYMENT TYPE"
               /\ ~IsNull(t[i][c])
               /\ Val(t[i][c]) \in DOMAIN M
            THEN Some(M[Val(t[i][c])])
            ELSE t[i][c]]]

\* the rename step has just returned
JustRenamed == gpc = "verify" /\ ~IsNull(cli_gateway)

\* C15: the table returned by replace_invoice_gateway with mapping M has
\* the rows of its argument in the same order, PAYMENT TYPE v replaced by
\* M[v] exactly when v is a key of M (compared case-sensitively), and every
\* other column unchanged.
C15_RenameMapsKeys ==
    JustRenamed => invoices = Renamed(db_rows, PyDict(Val(cli_gateway)))

C15_Witness ==
    /\ JustRenamed
    /\ cli_gateway = Some(RenameTwo)
    /\ \E i, j \in 1..Len(db_rows) :
           /\ db_rows[i]["PAYMENT TYPE"] = Some(LSTRIPE)
           /\ invoices[i]["PAYMENT TYPE"] = Some(STRIPE)
           /\ db_rows[j]["PAYMENT TYPE"] = Some(VIPPS)
           /\ invoices[j]["PAYMENT TYPE"] = Some(VIPPS)

\* C16: replace_invoice_gateway has no side effect: the table object the
\* caller passed in holds its PAYMENT TYPE values of before the call.
C16_RenameIsPure ==
    (query_ok /\ gpc # "get_invoices")
        => Column(queried, "PAYMENT TYPE") = Column(db_rows, "PAYMENT TYPE")

\* the old and the new names of the pairs
PairNames(pairs) ==
    {pairs[i][1] : i \in 1..Len(pairs)} \cup {pairs[i][2] : i \in 1..Len(pairs)}

\* position of a column in the header of the file
HeaderIndex(f, c) == CHOOSE j \in 1..Len(f.header) : f.header[j] = c

\* C17: with a mapping supplied, verify_invoices starts on the renamed
\* table, its allowlist is the set of new names of the mapping, no row
\* whose PAYMENT TYPE was an old or a new name of the mapping is reported
\* by the gateway check, and the export file carries the renamed values.
C17_RenameBeforeVerify ==
    ~IsNull(cli_gateway) =>
        LET pairs == Val(cli_gateway)
            renamed == Renamed(db_rows, PyDict(pairs))
        IN  /\ pc # "idle" =>
                   /\ invoices = renamed
                   /\ ~IsNull(gateway)
                   /\ Range(Val(gateway)) =
                          {pairs[i][2] : i \in 1..Len(pairs)}
            /\ pc = "start" => df = renamed
            /\ \A i \in 1..Len(db_rows) :
                   LET v == db_rows[i]["PAYMENT TYPE"]
                   IN  (~IsNull(v) /\ Val(v) \in PairNames(pairs)) =>
                           \A k \in 1..Len(LoggedBy("_unknown_gateway")) :
                               LoggedBy("_unknown_gateway")[k].args #
                                   <<Val(db_rows[i]["ORDER NO"]),
                                     Val(renamed[i]["PAYMENT TYPE"])>>
            /\ ~IsNull(file) =>
                   /\ Len(Val(file).records) = Len(db_rows)
                   /\ \A i \in 1..Len(db_rows) :
                          Val(file).records[i]
                              [HeaderIndex(Val(file), "PAYMENT TYPE")]
                            = CsvField(renamed[i]["PAYMENT TYPE"])

\* a finished run in which an old name was renamed and passed the gateway
\* check while another row was reported
C17_Witness ==
    /\ gpc = "done"
    /\ cli_gateway = Some(RenameOne)
    /\ Len(LoggedBy("_unknown_gateway")) > 0
    /\ \E i \in 1..Len(db_rows) :
           /\ db_rows[i]["PAYMENT TYPE"] = Some(LSTRIPE)
           /\ Val(file).records[i][HeaderIndex(Val(file), "PAYMENT TYPE")]
                  = STRIPE

\* the query failed or a column of the 17 is missing
QueryUnusable ==
    \/ ~query_ok
    \/ ~HasColumns(Range(INVOICE_REQUIRED_FIELDS \o INVOICE_OPTIONAL_FIELDS))

\* C14: if the query fails or the table lacks a column that the validator
\* or the exporter reads, no export file is ever written and the run never
\* completes: the only state in which it stops is the abort, with an error.
\* (Every position of the run other than "done" and "aborted" has a step.)
C14_FailureAborts ==
    QueryUnusable =>
        /\ IsNull(file)
        /\ gpc # "done"
        /\ gpc = "aborted" => err # ""

\* the validator returned a verdict and the run aborted at the export,
\* which selects a column the validator never reads
C14_Witness ==
    /\ QueryUnusable
    /\ query_ok
    /\ pc = "done"
    /\ gpc = "aborted"
    /\ err = "KeyError"
    /\ IsNull(file)

(***************************************************************************)
(* verify_invoices: frame, severities, refunds.                            *)
(***************************************************************************)
\* C18: verify_invoices called directly leaves the table of its caller as
\* it was handed over (db_rows): the same columns, no price_after_discount
\* added, and the same cells, empty strings included.
C18_CallerTableUnchanged ==
    gpc = "none" => invoices = db_rows

\* verify_invoices has returned, its working table has the derived column
\* and a null where the caller's table still has the empty string
C18_Witness ==
    /\ gpc = "none"
    /\ pc = "done"
    /\ \E i \in 1..Len(df) :
           /\ "price_after_discount" \in DOMAIN df[i]
           /\ "price_after_discount" \notin DOMAIN invoices[i]
           /\ invoices[i]["ORDER LINE - PROD NO"] = Some(<<>>)
           /\ IsNull(df[i]["ORDER LINE - PROD NO"])

\* C19: every message of refund detection and of gift-card detection is
\* logged at info severity, never at warning severity.
C19_FindingsAtInfo ==
    \A i \in 1..Len(log) :
        log[i].src \in {"_refunds", "_gift_cards"} => log[i].level = "info"

\* the integers behind the prefix of the ORDER NO of the rows I of t
NumbersOf(t, I) == {ParseDigits(Tail(Val(t[i]["ORDER NO"])), 0) : i \in I}

\* C20: the orders reported by refund detection are exactly the orders
\* left out of order-number continuity and of the count of ordinary orders
\* in the summary: continuity is decided over the orders not reported, and
\* the summary counts as ordinary exactly the orders not reported.
C20_RefundsExcluded ==
    Ran(3) =>
        LET reported == Range(ReportedBy("_refunds"))
            kept == {i \in 1..Len(df) :
                        Val(df[i]["ORDER NO"]) \notin reported}
            N == NumbersOf(df, kept)
        IN  /\ tests_passed[3] = (N = {} \/ Gaps(N) = {})
            /\ LoggedBy("verify_invoices")[1].args[1]
                   = Cardinality({Val(df[i]["ORDER NO"]) : i \in kept})

(***************************************************************************)
(* Synchronisation with the remote shop.                                   *)
(***************************************************************************)
\* C21: one call of fetch_all or fetch_single makes at most _RETRY_LIMIT
\* requests; it returns only when the last response had status 200; and it
\* raises only after exactly _RETRY_LIMIT requests that all failed.
C21_BoundedRetry ==
    /\ Len(responses) <= _RETRY_LIMIT
    /\ fpc = "returned" => responses[Len(responses)] = 200
    /\ fpc = "raised" =>
           /\ Len(responses) = _RETRY_LIMIT
           /\ \A i \in 1..Len(responses) : responses[i] # 200

RECURSIVE Flatten(_)
\* the records of a sequence of batches, in the order passed
Flatten(batches) ==
    IF Len(batches) = 0 THEN <<>>
    ELSE batches[1] \o Flatten(Tail(batches))

\* C22: when update_transactions or update_refunds returns, every record
\* received from the API has been passed to the database exactly once, and
\* the count logged is the number of records received.
C22_NothingLostInBatching ==
    bpc = "returned" =>
        /\ Flatten(written) = received
        /\ transactions_cnt = Len(received)

\* the lists of records with pairwise different ids
DistinctBatches(t) ==
    {b \in BatchesOf(t) : Len(b) > 0 /\ Cardinality(IdsOf(b)) = Len(b)}

\* C23: after any sequence of upserts the stored row of each id equals the
\* record last supplied for it in every supplied column, and upserting a
\* batch a second time changes nothing.
C23_UpsertByPrimaryKey ==
    utable # "none" =>
        /\ DOMAIN stored = DOMAIN supplied
        /\ \A i \in DOMAIN stored : stored[i] = supplied[i]
        /\ \A b \in DistinctBatches(utable) :
               LET once == Upsert(stored, b, SetColumns(utable))
               IN  Upsert(once, b, SetColumns(utable)) = once

\* C24: the last run of shopify_update has fetched the refunds of every
\* order whose financial status in the shop contained 'refund' at the time
\* of that run, also of an order an earlier run stored before its refund.
C24_RefundsOfRefundedOrders ==
    runs > 0 =>
        \A i \in DOMAIN remote_seen :
            StrContains(remote_seen[i], REFUND) => i \in refunded_order_ids

\* C25: the result of the invoice query holds every line of the date
\* range, gives the lines of one (ORDER NO, payment group) pair one INVOICE
\* NO and different pairs different ones, uses exactly the numbers
\* start_id .. start_id + G - 1 for the G pairs of the range, passes the
\* invoice-number continuity check, and its smallest number is start_id.
C25_InvoiceNumbering ==
    qpc = "done" =>
        LET key(r) == <<r.ti.order_no, r.ti.payment_tag>>
            G == Cardinality(GroupsOf(view))
            numbers == {qresult[i].invoice_no : i \in 1..Len(qresult)}
            check == _invoice_no(ResultTable(qresult))
        IN  /\ \A i \in 1..Len(view) :
                   view[i].in_range =>
                       \E k \in 1..Len(qresult) : qresult[k].ti = view[i]
            /\ \A i, j \in 1..Len(qresult) :
                   (key(qresult[i]) = key(qresult[j]))
                       <=> (qresult[i].invoice_no = qresult[j].invoice_no)
            /\ numbers = invoice_start_id..(invoice_start_id + G - 1)
            /\ ~check.raised
            /\ check.ret
            /\ numbers # {}
            /\ \A n \in numbers : n >= invoice_start_id

\* the tables a pass of the loop writes for one page
TablesWritten(p) ==
    CASE p = "update_customers" -> <<"customers">>
      [] p = "update_orders" -> <<"orders", "line_item_products", "shipping">>
      [] p = "update_products_and_variants" -> <<"products", "product_variants">>

\* the positions of the requests in the trace
RequestsAt == {i \in 1..Len(trace) : trace[i].kind = "request"}

\* the request before position i
PreviousRequest(i) ==
    CHOOSE j \in RequestsAt : j < i /\ \A l \in RequestsAt : l < i => l <= j

\* the requests follow the 'next' link one at a time: the first has no
\* page token and carries the date filters, every other one carries the
\* token of the 'next' link of the answer before it and no filter, and
\* that answer was a page with records
FollowsNext ==
    \A i \in RequestsAt :
        IF \A j \in RequestsAt : i <= j
        THEN /\ i = 1
             /\ trace[i].params.page_info = Null
             /\ trace[i].params.created_at_min = created_at[1]
             /\ trace[i].params.created_at_max = created_at[2]
        ELSE LET before == trace[PreviousRequest(i)]
             IN  /\ before.next # Null
                 /\ before.served > 0
                 /\ Len(pages[before.served]) > 0
                 /\ trace[i].params.page_info = before.next
                 /\ trace[i].served \in {0, before.next[1]}
                 /\ trace[i].params.created_at_min = Null
                 /\ trace[i].params.created_at_max = Null
                 /\ trace[i].params.status = Null

\* every page with records that was fetched is written once, to each
\* table of the function, right after its request; nothing else is written
WrittenOnce ==
    LET tables == TablesWritten(pager)
        n == Len(tables)
    IN  /\ \A i \in RequestsAt :
            (trace[i].served > 0 /\ Len(pages[trace[i].served]) > 0) =>
                /\ i + n <= Len(trace)
                /\ \A j \in 1..n :
                    /\ trace[i + j].kind = "write"
                    /\ trace[i + j].table = tables[j]
                    /\ trace[i + j].served = trace[i].served
                    /\ trace[i + j].ids = IdsOfPage(trace[i].served)
        /\ \A i \in 1..Len(trace) :
            trace[i].kind = "write" =>
                /\ i - PreviousRequest(i) <= n
                /\ trace[PreviousRequest(i)].served = trace[i].served
        /\ \A i, j \in RequestsAt : i # j => trace[i].served # trace[j].served \/ trace[i].served = 0

\* the loop goes on after an answer with records and a 'next' link, and
\* ends at an empty page or an answer without the link
EndsAtLastPage ==
    LET last == trace[CHOOSE i \in RequestsAt : \A j \in RequestsAt : j <= i]
    IN  /\ ppc = "returned" =>
            /\ RequestsAt # {}
            /\ last.served > 0
            /\ Len(pages[last.served]) = 0 \/ last.next = Null
        /\ (ppc = "loop" /\ RequestsAt # {}) =>
            /\ last.served > 0
            /\ Len(pages[last.served]) > 0
            /\ last.next # Null
        /\ (ppc = "raised") => RequestsAt # {}

\* C26: paginated ingestion (update_customers, update_orders,
\* update_products_and_variants) requests the pages one at a time along
\* the 'next' link of the answer before, writes every page with records
\* once and before it requests the next, ends at the first empty page or
\* the first answer without a 'next' link, and sends the date filters
\* with the first request only, the page token with the others
C26_PaginatedIngestion ==
    ppc \in {"loop", "returned", "raised"} =>
        /\ FollowsNext
        /\ WrittenOnce
        /\ EndsAtLastPage

====
